---- MODULE Spec2Model ----
(***************************************************************************)
(* A model of aperf's process collector (src/data/processes.rs): the       *)
(* sampler (prepare_data_collector, collect_data), the decoder             *)
(* (process_raw_data) and the series builder (get_values, reached through  *)
(* get_data), together with the shared TICKS_PER_SECOND cell.              *)
(*                                                                         *)
(* Strings are sequences of one-character strings.  A u64 is a natural     *)
(* below Modulus = 2^TickBits: the width is scaled down from 64 bits so    *)
(* that the values around 2^63 and 2^64 are within reach of the checker.   *)
(* Rust arithmetic that leaves the range panics when the build has         *)
(* overflow checks and wraps when it has not; every operation that does    *)
(* arithmetic takes the flag `checks` and the actions choose it freely.    *)
(***************************************************************************)
EXTENDS Integers, Sequences, FiniteSets, TLC

VARIABLES
    TICKS_PER_SECOND,   \* the shared cell (line 20)
    HZ,                 \* what procfs::ticks_per_second() answers on this host
    clock,              \* what Utc::now() answers, in whole time units
    raw,                \* the collector's ProcessesRaw object
    buffer,             \* the recorded ProcessesRaw values, oldest first
    tables,             \* history: the process stats each record was taken from
    cursor,             \* how many recorded values process_raw_data was given
    processed,          \* the decoded Processes values, oldest first
    runs,               \* the results get_values returned for the current input
    op,                 \* the operation that ran last
    outcome,            \* what it returned: "ok", "err" or "panic"
    crashed,            \* a panic has ended the process
    wrote               \* history: the last operation assigned the cell

vars == <<TICKS_PER_SECOND, HZ, clock, raw, buffer, tables, cursor, processed,
          runs, op, outcome, crashed, wrote>>

(***************************************************************************)
(* Bounds of the model.                                                    *)
(***************************************************************************)
TickBits == 8
MaxSnapshots == 3
MaxProcs == 2
MaxEntries == 3

(***************************************************************************)
(* u64 and i64 arithmetic.                                                 *)
(***************************************************************************)
Modulus == 2 ^ TickBits
Half == Modulus \div 2
MaxU64 == Modulus - 1

Wrap(x) == x % Modulus

AsI64(x) == IF x >= Half THEN x - Modulus ELSE x

\* A u64 operation whose exact result is x.
CheckedU64(x, checks) ==
    [panic |-> checks /\ (x < 0 \/ x > MaxU64), v |-> Wrap(x)]

\* An i64 operation whose exact result is x.
CheckedI64(x, checks) ==
    [panic |-> checks /\ (x < -Half \/ x > Half - 1), v |-> AsI64(Wrap(x))]

Panicked == [panic |-> TRUE, v |-> 0]

Min(S) == CHOOSE x \in S : \A y \in S : x <= y

\* TimeEnum::DateTime - TimeEnum::DateTime = TimeEnum::TimeDiff, for a >= b.
TimeSub(a, b) == a - b

(***************************************************************************)
(* get_values, lines 130-232.                                              *)
(***************************************************************************)

\* Lines 135-140.
total_time(values) ==
    LET v == TimeSub(values[Len(values)].time, values[1].time)
    IN  IF v > 0 THEN v ELSE 1

\* Lines 142-144: the entries of all snapshots in order, each with its offset.
RECURSIVE Flatten(_, _)
Flatten(values, time_zero) ==
    IF values = <<>> THEN <<>>
    ELSE LET value == Head(values)
             time == TimeSub(value.time, time_zero)
         IN  [i \in 1..Len(value.entries) |->
                 [time |-> time,
                  name |-> value.entries[i].name,
                  cpu_time |-> value.entries[i].cpu_time]]
             \o Flatten(Tail(values), time_zero)

\* Lines 147-154: the value stored at an offset that may already hold one.
MergeSample(samples, time, cpu_time, checks) ==
    IF time \in DOMAIN samples
    THEN CheckedU64(cpu_time + samples[time], checks)
    ELSE [panic |-> FALSE, v |-> cpu_time]

\* Lines 145-165: one entry into process_map.
InsertEntry(pm, e, checks) ==
    IF e.name \in DOMAIN pm
    THEN LET s == MergeSample(pm[e.name].samples, e.time, e.cpu_time, checks)
             samples == [t \in DOMAIN pm[e.name].samples \cup {e.time} |->
                            IF t = e.time THEN s.v ELSE pm[e.name].samples[t]]
         IN  [panic |-> s.panic,
              v |-> [pm EXCEPT ![e.name].samples = samples]]
    ELSE [panic |-> FALSE,
          v |-> [n \in DOMAIN pm \cup {e.name} |->
                    IF n = e.name
                    THEN [name |-> e.name, total_cpu_time |-> 0,
                          samples |-> [t \in {e.time} |-> e.cpu_time]]
                    ELSE pm[n]]]

\* Lines 142-167.
RECURSIVE BuildMap(_, _, _, _)
BuildMap(flat, i, pm, checks) ==
    IF i > Len(flat) THEN [panic |-> FALSE, v |-> pm]
    ELSE LET r == InsertEntry(pm, flat[i], checks)
         IN  IF r.panic THEN Panicked ELSE BuildMap(flat, i + 1, r.v, checks)

EmptyMap == [n \in {} |-> 0]

process_map(values, checks) ==
    BuildMap(Flatten(values, values[1].time), 1, EmptyMap, checks)

\* Lines 179-180: a timeline's entries by ascending offset.
RECURSIVE SortedEntries(_)
SortedEntries(samples) ==
    IF DOMAIN samples = {} THEN <<>>
    ELSE LET t == Min(DOMAIN samples)
         IN  <<[time |-> t, cpu_time |-> samples[t]]>>
             \o SortedEntries([u \in DOMAIN samples \ {t} |-> samples[u]])

\* Lines 193-198: the tick difference to the previous sample, floored at 0.
ClampedDelta(cur, prev, checks) ==
    LET diff == CheckedI64(AsI64(cur) - AsI64(prev), checks)
    IN  IF diff.panic THEN Panicked
        ELSE IF diff.v >= 0 THEN CheckedU64(cur - prev, checks)
        ELSE [panic |-> FALSE, v |-> 0]

Percent == 100

\* Lines 213-214.
Percentage(delta, ticks_per_second, delta_time, checks) ==
    LET divisor == CheckedU64(ticks_per_second * delta_time, checks)
    IN  IF divisor.panic \/ divisor.v = 0 THEN Panicked
        ELSE CheckedU64((delta \div divisor.v) * Percent, checks)

\* WalkStep without the test of lines 205-207: an entry at the offset of the
\* one before it is emitted too.
WalkStep_NoSkip(st, e, ticks_per_second, checks) ==
    LET d == ClampedDelta(e.cpu_time, st.prev_sample.cpu_time, checks)
        tot == CheckedU64(st.total_cpu_time + d.v, checks)
        dt == e.time - st.prev_time
        pct == IF dt = 0 THEN [panic |-> FALSE, v |-> 0]
               ELSE Percentage(d.v, ticks_per_second, dt, checks)
    IN  IF d.panic \/ tot.panic \/ pct.panic THEN [st EXCEPT !.panic = TRUE]
        ELSE [panic |-> FALSE,
              prev_sample |-> e,
              prev_time |-> e.time,
              total_cpu_time |-> tot.v,
              entries |-> Append(st.entries,
                                 [cpu_time |-> pct.v, time |-> e.time])]

\* Lines 188-221: one iteration of the loop over a timeline.
WalkStep(st, e, ticks_per_second, checks) ==
    LET d == ClampedDelta(e.cpu_time, st.prev_sample.cpu_time, checks)
        tot == CheckedU64(st.total_cpu_time + d.v, checks)
        dt == e.time - st.prev_time
        pct == Percentage(d.v, ticks_per_second, dt, checks)
    IN  IF d.panic \/ tot.panic THEN [st EXCEPT !.panic = TRUE]
        ELSE IF dt = 0 THEN [st EXCEPT !.total_cpu_time = tot.v]
        ELSE IF pct.panic THEN [st EXCEPT !.panic = TRUE]
        ELSE [panic |-> FALSE,
              prev_sample |-> e,
              prev_time |-> e.time,
              total_cpu_time |-> tot.v,
              entries |-> Append(st.entries,
                                 [cpu_time |-> pct.v, time |-> e.time])]

RECURSIVE Walk(_, _, _, _, _)
Walk(entries, i, st, ticks_per_second, checks) ==
    IF i > Len(entries) \/ st.panic THEN st
    ELSE Walk(entries, i + 1,
              WalkStep(st, entries[i], ticks_per_second, checks),
              ticks_per_second, checks)

\* Lines 173-222: the EndEntry of one process.
end_entry(process, ticks_per_second, checks) ==
    LET entries == SortedEntries(process.samples)
        st == Walk(entries, 1,
                   [panic |-> FALSE,
                    prev_sample |-> entries[1],
                    prev_time |-> entries[1].time,
                    total_cpu_time |-> 0,
                    entries |-> <<>>],
                   ticks_per_second, checks)
    IN  [panic |-> st.panic,
         v |-> [name |-> process.name,
                total_cpu_time |-> st.total_cpu_time,
                entries |-> st.entries]]

\* Line 225: a stable sort, descending by total_cpu_time.
RECURSIVE InsertSorted(_, _)
InsertSorted(sorted, x) ==
    IF sorted = <<>> THEN <<x>>
    ELSE IF Head(sorted).total_cpu_time >= x.total_cpu_time
         THEN <<Head(sorted)>> \o InsertSorted(Tail(sorted), x)
         ELSE <<x>> \o sorted

RECURSIVE SortEndEntries(_)
SortEndEntries(s) ==
    IF s = <<>> THEN <<>>
    ELSE InsertSorted(SortEndEntries(SubSeq(s, 1, Len(s) - 1)), s[Len(s)])

CapCheck == 16
CapKeep == 15

\* Truncate keeping as many entries as the test allows.
Truncate_KeepCheck(s) == IF Len(s) > CapCheck THEN SubSeq(s, 1, CapCheck) ELSE s

\* Lines 227-229.
Truncate(s) == IF Len(s) > CapCheck THEN SubSeq(s, 1, CapKeep) ELSE s

\* Lines 130-232.  `order` is the order in which process_map.iter_mut()
\* yields the processes.
get_values(values, ticks_per_second, order, checks) ==
    IF values = <<>> THEN Panicked
    ELSE LET pm == process_map(values, checks)
         IN  IF pm.panic THEN Panicked
             ELSE LET ends == [i \in 1..Len(order) |->
                                  end_entry(pm.v[order[i]], ticks_per_second, checks)]
                  IN  IF \E i \in 1..Len(order) : ends[i].panic THEN Panicked
                      ELSE [panic |-> FALSE,
                            v |-> [collection_time |-> total_time(values),
                                   end_entries |->
                                       Truncate(SortEndEntries(
                                           [i \in 1..Len(order) |-> ends[i].v]))]]


\* The orders process_map.iter_mut() (line 173) may yield the keys in.  A
\* HashMap promises none; the model takes one listing of the keys, the
\* listing rotated by one place, and the reversals of both: every order of
\* up to two keys, and four of the orders of more.
RECURSIVE Listing(_)
Listing(S) ==
    IF S = {} THEN <<>>
    ELSE LET x == CHOOSE y \in S : TRUE IN <<x>> \o Listing(S \ {x})

Rotate(s, r) == [i \in 1..Len(s) |-> s[((i + r - 1) % Len(s)) + 1]]

Reverse(s) == [i \in 1..Len(s) |-> s[Len(s) + 1 - i]]

IterOrders(S) ==
    IF S = {} THEN {<<>>}
    ELSE LET l == Listing(S)
         IN  {l, Reverse(l), Rotate(l, 1), Reverse(Rotate(l, 1))}

\* The process names of a sequence of snapshots.
NamesOf(values) ==
    UNION {{values[i].entries[j].name : j \in 1..Len(values[i].entries)} :
           i \in 1..Len(values)}

(***************************************************************************)
(* The line format: collect_data's encoder, process_raw_data's decoder.    *)
(***************************************************************************)
Digits == <<"0", "1", "2", "3", "4", "5", "6", "7", "8", "9">>

\* format!("{}", n) of an unsigned integer.
RECURSIVE FmtU64(_)
FmtU64(n) ==
    IF n < 10 THEN <<Digits[n + 1]>>
    ELSE FmtU64(n \div 10) \o <<Digits[(n % 10) + 1]>>

\* Line 66.
process_entry(name, pid, time_ticks) ==
    name \o <<";">> \o FmtU64(pid) \o <<";">> \o FmtU64(time_ticks) \o <<"\n">>

\* Lines 57-68: the text of the readable processes of the table, or a panic.
RECURSIVE EncodeTable(_, _)
EncodeTable(table, checks) ==
    IF table = <<>> THEN [panic |-> FALSE, v |-> <<>>]
    ELSE LET pstat == Head(table)
             rest == EncodeTable(Tail(table), checks)
             time_ticks == CheckedU64(pstat.utime + pstat.stime, checks)
         IN  IF ~pstat.ok THEN rest
             ELSE IF time_ticks.panic \/ rest.panic THEN Panicked
             ELSE [panic |-> FALSE,
                   v |-> process_entry(pstat.comm, pstat.pid, time_ticks.v)
                         \o rest.v]

\* The (name, pid, cpu_ticks) triples collect_data writes for a table.
RECURSIVE Triples(_)
Triples(table) ==
    IF table = <<>> THEN <<>>
    ELSE LET pstat == Head(table)
         IN  (IF pstat.ok
              THEN <<[name |-> pstat.comm, pid |-> pstat.pid,
                      cpu_time |-> Wrap(pstat.utime + pstat.stime)]>>
              ELSE <<>>) \o Triples(Tail(table))

\* The pieces of s between occurrences of sep: str::split, line 246.
RECURSIVE Split(_, _)
Split(s, sep) ==
    IF \A i \in 1..Len(s) : s[i] # sep THEN <<s>>
    ELSE LET k == Min({i \in 1..Len(s) : s[i] = sep})
         IN  <<SubSeq(s, 1, k - 1)>> \o Split(SubSeq(s, k + 1, Len(s)), sep)

\* BufRead::lines, line 244: the pieces ended by a line feed, each without
\* the carriage return before it, and the rest when it is not empty.
StripCR(l) ==
    IF l # <<>> /\ l[Len(l)] = "\r" THEN SubSeq(l, 1, Len(l) - 1) ELSE l

Lines(s) ==
    LET pieces == Split(s, "\n")
        n == Len(pieces)
    IN  [i \in 1..(n - 1) |-> StripCR(pieces[i])]
        \o (IF pieces[n] = <<>> THEN <<>> ELSE <<pieces[n]>>)

DigitValue(c) == (CHOOSE i \in 1..10 : Digits[i] = c) - 1

IsDigit(c) == \E i \in 1..10 : Digits[i] = c

RECURSIVE DigitsValue(_)
DigitsValue(s) ==
    IF s = <<>> THEN 0
    ELSE DigitsValue(SubSeq(s, 1, Len(s) - 1)) * 10 + DigitValue(s[Len(s)])

\* str::parse::<u64>, lines 253-254: an optional '+', then digits, in range.
ParseU64(s) ==
    LET body == IF s # <<>> /\ s[1] = "+" THEN Tail(s) ELSE s
    IN  IF body = <<>> \/ \E i \in 1..Len(body) : ~IsDigit(body[i])
        THEN [err |-> TRUE, v |-> 0]
        ELSE IF DigitsValue(body) > MaxU64 THEN [err |-> TRUE, v |-> 0]
        ELSE [err |-> FALSE, v |-> DigitsValue(body)]

\* Lines 244-257: the entries of the lines, an error, or a panic.
RECURSIVE DecodeLines(_)
DecodeLines(lines) ==
    IF lines = <<>> THEN [status |-> "ok", entries |-> <<>>]
    ELSE LET line_str == Split(Head(lines), ";")
             pid == ParseU64(line_str[2])
             cpu_time == ParseU64(line_str[3])
             rest == DecodeLines(Tail(lines))
         IN  IF Len(line_str) < 3 THEN [status |-> "panic", entries |-> <<>>]
             ELSE IF pid.err \/ cpu_time.err
                  THEN [status |-> "err", entries |-> <<>>]
             ELSE IF rest.status # "ok" THEN rest
             ELSE [status |-> "ok",
                   entries |-> <<[name |-> line_str[1], pid |-> pid.v,
                                  cpu_time |-> cpu_time.v]>> \o rest.entries]

Decode(data) == DecodeLines(Lines(data))

(***************************************************************************)
(* The operations.                                                         *)
(***************************************************************************)

\* Lines 41-44.  procfs::ticks_per_second() answers the host's rate or fails.
prepare_data_collector ==
    /\ ~crashed
    /\ \E answered \in BOOLEAN :
          /\ TICKS_PER_SECOND' = IF answered THEN HZ ELSE TICKS_PER_SECOND
          /\ wrote' = answered
          /\ outcome' = IF answered THEN "ok" ELSE "err"
    /\ runs' = IF TICKS_PER_SECOND' = TICKS_PER_SECOND THEN runs ELSE {}
    /\ op' = "prepare_data_collector"
    /\ UNCHANGED <<HZ, clock, raw, buffer, tables, cursor, processed, crashed>>

\* collect_data_with resolving the host's rate itself, as preparation does.
collect_data_resolving(listed, table, checks) ==
    LET ticks_per_second == HZ
        now == clock + 1
        data == EncodeTable(table, checks)
    IN  /\ clock' = now
        /\ TICKS_PER_SECOND' = ticks_per_second
        /\ IF ~listed
           THEN /\ raw' = [raw EXCEPT !.time = now, !.data = <<>>]
                /\ outcome' = "err"
                /\ UNCHANGED <<buffer, tables, crashed>>
           ELSE IF data.panic
           THEN /\ raw' = [raw EXCEPT !.time = now, !.data = <<>>]
                /\ outcome' = "panic"
                /\ crashed' = TRUE
                /\ UNCHANGED <<buffer, tables>>
           ELSE /\ raw' = [time |-> now,
                           ticks_per_second |-> ticks_per_second,
                           data |-> data.v]
                /\ buffer' = Append(buffer, raw')
                /\ tables' = Append(tables, table)
                /\ outcome' = "ok"
                /\ UNCHANGED crashed
        /\ wrote' = TRUE
        /\ op' = "collect_data"
        /\ runs' = IF TICKS_PER_SECOND' = TICKS_PER_SECOND THEN runs ELSE {}
        /\ UNCHANGED <<HZ, cursor, processed>>

\* Lines 46-73, and the recording of the collected value (lines 345-346).
\* `listed` is whether all_processes() succeeded, `table` what stat() answers
\* for each process listed.
collect_data_with(listed, table, checks) ==
    LET ticks_per_second == TICKS_PER_SECOND
        now == clock + 1
        data == EncodeTable(table, checks)
    IN  /\ clock' = now
        /\ IF ~listed
           THEN /\ raw' = [raw EXCEPT !.time = now, !.data = <<>>]
                /\ outcome' = "err"
                /\ UNCHANGED <<buffer, tables, crashed>>
           ELSE IF data.panic
           THEN /\ raw' = [raw EXCEPT !.time = now, !.data = <<>>]
                /\ outcome' = "panic"
                /\ crashed' = TRUE
                /\ UNCHANGED <<buffer, tables>>
           ELSE /\ raw' = [time |-> now,
                           ticks_per_second |-> ticks_per_second,
                           data |-> data.v]
                /\ buffer' = Append(buffer, raw')
                /\ tables' = Append(tables, table)
                /\ outcome' = "ok"
                /\ UNCHANGED crashed
        /\ wrote' = FALSE
        /\ op' = "collect_data"
        /\ UNCHANGED <<TICKS_PER_SECOND, HZ, cursor, processed, runs>>

\* Lines 235-260, given the next recorded value.
process_raw_data ==
    /\ ~crashed
    /\ cursor < Len(buffer)
    /\ LET raw_value == buffer[cursor + 1]
           d == Decode(raw_value.data)
       IN  /\ TICKS_PER_SECOND' = raw_value.ticks_per_second
           /\ processed' = IF d.status = "ok"
                           THEN Append(processed, [time |-> raw_value.time,
                                                   entries |-> d.entries])
                           ELSE processed
           /\ outcome' = d.status
           /\ crashed' = (d.status = "panic")
    /\ wrote' = TRUE
    /\ cursor' = cursor + 1
    /\ runs' = IF TICKS_PER_SECOND' = TICKS_PER_SECOND /\ processed' = processed
               THEN runs ELSE {}
    /\ op' = "process_raw_data"
    /\ UNCHANGED <<HZ, clock, raw, buffer, tables>>

\* Lines 241-259 for a recorded value that decodes without error to the
\* entries given: the value was taken at `time` on this host.
process_decoded(time, entries) ==
    /\ ~crashed
    /\ TICKS_PER_SECOND' = HZ
    /\ processed' = Append(processed, [time |-> time, entries |-> entries])
    /\ outcome' = "ok"
    /\ wrote' = TRUE
    /\ runs' = {}
    /\ op' = "process_raw_data"
    /\ UNCHANGED <<HZ, clock, raw, buffer, tables, cursor, crashed>>

\* Lines 279-283: get_values in either build, given its result `checked` in
\* the build with overflow checks.  A run in which no checked operation
\* overflows is the same in the build without them.
get_values_call(checked, order) ==
    \E checks \in BOOLEAN :
        LET r == IF checks \/ ~checked.panic THEN checked
                 ELSE get_values(processed, TICKS_PER_SECOND, order, FALSE)
        IN  /\ op' = "get_values"
            /\ outcome' = IF r.panic THEN "panic" ELSE "ok"
            /\ crashed' = r.panic
            /\ runs' = IF r.panic THEN runs ELSE runs \cup {r.v}

\* Lines 268-286.  `query` is the request named by the query string:
\* "values", "none" for one with fewer than two parameters, or another name.
get_data(query) ==
    /\ ~crashed
    /\ IF query # "values"
       THEN /\ op' = "get_data"
            /\ outcome' = "panic"
            /\ crashed' = TRUE
            /\ UNCHANGED runs
       ELSE \E order \in IterOrders(NamesOf(processed)) :
               get_values_call(
                   get_values(processed, TICKS_PER_SECOND, order, TRUE), order)
    /\ wrote' = FALSE
    /\ UNCHANGED <<TICKS_PER_SECOND, HZ, clock, raw, buffer, tables, cursor,
                   processed>>

(***************************************************************************)
(* Spec: the whole collector on a host whose processes have plain names.   *)
(* A process may be gone when its stat is read.                            *)
(***************************************************************************)
MaxCollects == 2
MaxTable == 1

Gone == [ok |-> FALSE, comm |-> <<>>, pid |-> 0, utime |-> 0, stime |-> 0]

PStats(names) ==
    {Gone} \cup [ok : {TRUE}, comm : names, pid : {3}, utime : {7}, stime : {5}]

RECURSIVE SeqsUpTo(_, _)
SeqsUpTo(S, n) ==
    IF n = 0 THEN {<<>>}
    ELSE LET shorter == SeqsUpTo(S, n - 1)
         IN  shorter \cup {Append(s, x) : s \in {t \in shorter : Len(t) = n - 1},
                                          x \in S}

PlainNames == {<<"a">>, <<"b">>}

collect_data ==
    /\ ~crashed
    /\ clock < MaxCollects
    /\ \E listed \in BOOLEAN, table \in SeqsUpTo(PStats(PlainNames), MaxTable),
          checks \in BOOLEAN :
          collect_data_with(listed, table, checks)

Queries == {"values", "none", "other"}

\* The state after construction on a host whose rate is one of `rates`.
Start(rates) ==
    /\ TICKS_PER_SECOND = 0
    /\ HZ \in rates
    /\ clock = 0
    /\ raw = [time |-> 0, ticks_per_second |-> 0, data |-> <<>>]
    /\ buffer = <<>>
    /\ tables = <<>>
    /\ cursor = 0
    /\ processed = <<>>
    /\ runs = {}
    /\ op = "none"
    /\ outcome = "none"
    /\ crashed = FALSE
    /\ wrote = FALSE

Init == Start({1})

Next ==
    \/ prepare_data_collector
    \/ collect_data
    \/ process_raw_data
    \/ \E query \in Queries : get_data(query)

Spec == Init /\ [][Next]_vars

(***************************************************************************)
(* SpecCodec: the sampler and the decoder on a host whose process names    *)
(* hold the characters of the line format.                                 *)
(***************************************************************************)
CommNames == {<<"a">>, <<"a", ";", "b">>, <<"a", ";", "7">>, <<"a", "\n">>}

collect_comm ==
    /\ ~crashed
    /\ clock < MaxCollects
    /\ \E listed \in BOOLEAN, table \in SeqsUpTo(PStats(CommNames), MaxTable),
          checks \in BOOLEAN :
          collect_data_with(listed, table, checks)

NextCodec ==
    \/ prepare_data_collector
    \/ collect_comm
    \/ process_raw_data

SpecCodec == Init /\ [][NextCodec]_vars

(***************************************************************************)
(* SpecDerive: get_values on every short sequence of decoded snapshots.    *)
(* The snapshots are taken at most one time unit apart and hold at most    *)
(* MaxEntries entries in all.                                              *)
(***************************************************************************)
DeriveNames == {<<"a">>, <<"b">>}

TickValues == {0, 1, Half}

\* The entry lists of up to n processes with tick values of T; the process
\* in place i has pid i.
DeriveEntries(n, T) ==
    {[i \in 1..Len(es) |-> [name |-> es[i].name, pid |-> i,
                            cpu_time |-> es[i].cpu_time]] :
        es \in SeqsUpTo([name : DeriveNames, cpu_time : T], n)}

RECURSIVE CountEntries(_)
CountEntries(values) ==
    IF values = <<>> THEN 0
    ELSE Len(Head(values).entries) + CountEntries(Tail(values))

\* The next decoded snapshot arrives.
process_next(T) ==
    /\ Len(processed) < MaxSnapshots
    /\ \E time \in (IF processed = <<>> THEN {1}
                    ELSE {processed[Len(processed)].time,
                          processed[Len(processed)].time + 1}) :
          \E entries \in DeriveEntries(
                  IF MaxEntries - CountEntries(processed) < MaxProcs
                  THEN MaxEntries - CountEntries(processed) ELSE MaxProcs, T) :
              process_decoded(time, entries)

InitDerive == Start({1, 2})

NextDerive ==
    \/ process_next(TickValues)
    \/ get_data("values")

SpecDerive == InitDerive /\ [][NextDerive]_vars

(***************************************************************************)
(* SpecSeries: as SpecDerive, with tick values that stay far from the      *)
(* ends of the range.                                                      *)
(***************************************************************************)
SmallTicks == {0, 1}

NextSeries ==
    \/ process_next(SmallTicks)
    \/ get_data("values")

SpecSeries == Init /\ [][NextSeries]_vars

(***************************************************************************)
(* SpecRank: get_values on two snapshots of many processes, around the     *)
(* size at which the ranking is cut.  Process i has used (i * m) % k ticks *)
(* between the snapshots, so that totals repeat with period k.             *)
(***************************************************************************)
MaxNames == 18
MaxMod == 3

RankName(i) == <<"p">> \o FmtU64(i)

RankEntries(n, k, m) ==
    [i \in 1..n |-> [name |-> RankName(i), pid |-> i, cpu_time |-> (i * m) % k]]

\* The next decoded snapshot arrives: the first with no ticks used yet.
process_rank ==
    /\ Len(processed) < 2
    /\ \E n \in 1..MaxNames, k \in 1..MaxMod, m \in 1..MaxMod :
          /\ processed # <<>> => Len(processed[1].entries) = n
          /\ process_decoded(Len(processed) + 1,
                             RankEntries(n, IF processed = <<>> THEN 1 ELSE k, m))

NextRank ==
    \/ process_rank
    \/ get_data("values")

SpecRank == Init /\ [][NextRank]_vars

(***************************************************************************)
(* What the specification says of a sequence of snapshots, computed on    *)
(* the integers: the offsets a name is seen at, the ticks it has at an     *)
(* offset, and the ticks it has consumed.                                  *)
(***************************************************************************)
RefOffset(values, i) == values[i].time - values[1].time

RefPlaces(values, name, t) ==
    UNION {{<<i, j>> : j \in {k \in 1..Len(values[i].entries) :
                                  values[i].entries[k].name = name}} :
           i \in {h \in 1..Len(values) : RefOffset(values, h) = t}}

RECURSIVE RefSum(_, _)
RefSum(values, P) ==
    IF P = {} THEN 0
    ELSE LET p == CHOOSE q \in P : TRUE
         IN  values[p[1]].entries[p[2]].cpu_time + RefSum(values, P \ {p})

RefTicks(values, name, t) == RefSum(values, RefPlaces(values, name, t))

RECURSIVE Ascending(_)
Ascending(S) ==
    IF S = {} THEN <<>> ELSE <<Min(S)>> \o Ascending(S \ {Min(S)})

RefOffsets(values, name) ==
    Ascending({RefOffset(values, i) : i \in
                  {j \in 1..Len(values) :
                      \E k \in 1..Len(values[j].entries) :
                          values[j].entries[k].name = name}})

RefDelta(values, name, k) ==
    LET offs == RefOffsets(values, name)
        d == RefTicks(values, name, offs[k]) - RefTicks(values, name, offs[k - 1])
    IN  IF d < 0 THEN 0 ELSE d

RECURSIVE RefTotalTo(_, _, _)
RefTotalTo(values, name, k) ==
    IF k < 2 THEN 0
    ELSE RefTotalTo(values, name, k - 1) + RefDelta(values, name, k)

RefTotal(values, name) ==
    RefTotalTo(values, name, Len(RefOffsets(values, name)))

\* No tick value of the name's timeline reaches 2^63.
RefSmall(values, name) ==
    \A k \in 1..Len(RefOffsets(values, name)) :
        RefTicks(values, name, RefOffsets(values, name)[k]) < Half

\* A sum of same-name samples or a total leaves the range of a u64.
RefOverflows(values) ==
    \E name \in NamesOf(values) :
        \/ RefTotal(values, name) > MaxU64
        \/ \E k \in 1..Len(RefOffsets(values, name)) :
              RefTicks(values, name, RefOffsets(values, name)[k]) > MaxU64

Returned(r) == {r.end_entries[i] : i \in 1..Len(r.end_entries)}

\* The place in a name's ascending offsets of the offset t.
PlaceOf(values, name, t) ==
    CHOOSE k \in 1..Len(RefOffsets(values, name)) :
        RefOffsets(values, name)[k] = t

(***************************************************************************)
(* The claims.                                                             *)
(***************************************************************************)

\* C1: every emitted sample's cpu_percent is the exact ratio
\* delta_ticks * 100 / (tick_rate * delta_time).  Stated here for the
\* timelines whose tick values are all below 2^63, where none of the code's
\* arithmetic overflows.
C1_ExactPercent ==
    \A r \in runs : \A e \in Returned(r) : \A i \in 1..Len(e.entries) :
        LET offs == RefOffsets(processed, e.name)
            k == PlaceOf(processed, e.name, e.entries[i].time)
        IN  (RefSmall(processed, e.name) /\ k >= 2) =>
                e.entries[i].cpu_time * TICKS_PER_SECOND * (offs[k] - offs[k - 1])
                    = RefDelta(processed, e.name, k) * 100

\* C2: every returned total_cpu_consumed is the sum over the name's timeline
\* of max(0, cum_ticks_i - cum_ticks_(i-1)), and a step on which the ticks
\* regress is emitted with cpu_percent 0.
C2_ClampedTotal ==
    \A r \in runs : \A e \in Returned(r) :
        /\ e.total_cpu_time = RefTotal(processed, e.name)
        /\ \A i \in 1..Len(e.entries) :
              LET k == PlaceOf(processed, e.name, e.entries[i].time)
              IN  (k >= 2 /\ RefDelta(processed, e.name, k) = 0) =>
                      e.entries[i].cpu_time = 0

\* C2, for the timelines whose tick values are all below 2^63.
C2_ClampedTotalSmall ==
    \A r \in runs : \A e \in Returned(r) :
        RefSmall(processed, e.name) =>
            /\ e.total_cpu_time = RefTotal(processed, e.name)
            /\ \A i \in 1..Len(e.entries) :
                  LET k == PlaceOf(processed, e.name, e.entries[i].time)
                  IN  (k >= 2 /\ RefDelta(processed, e.name, k) = 0) =>
                          e.entries[i].cpu_time = 0

\* C3: more than 16 names give exactly 15 processes, 16 or fewer give them
\* all, and no omitted process has consumed more than a retained one.
C3_Cap ==
    \A r \in runs :
        LET names == NamesOf(processed)
            kept == {e.name : e \in Returned(r)}
        IN  /\ Len(r.end_entries) =
                  IF Cardinality(names) > 16 THEN 15 ELSE Cardinality(names)
            /\ kept \subseteq names
            /\ Cardinality(kept) = Len(r.end_entries)
            /\ \A e \in Returned(r) :
                  /\ e.total_cpu_time = RefTotal(processed, e.name)
                  /\ \A n \in names \ kept :
                        RefTotal(processed, n) <= e.total_cpu_time

C3_Witness ==
    \E r \in runs :
        /\ Cardinality(NamesOf(processed)) > 16
        /\ Len(r.end_entries) = 15
        /\ \E n \in NamesOf(processed) \ {e.name : e \in Returned(r)} :
              RefTotal(processed, n) = r.end_entries[15].total_cpu_time

\* C4: for the same snapshots and the same tick rate every run of
\* get_values returns the same result.
C4_Deterministic == Cardinality(runs) <= 1

C6_FailsClosed ==
    /\ (op = "get_values" /\ RefOverflows(processed)) => outcome = "err"
    /\ ~RefOverflows(processed) =>
           \A r \in runs : \A e \in Returned(r) :
               e.total_cpu_time = RefTotal(processed, e.name)

\* C7: get_values of no snapshots returns an error value and does not end
\* the process.
C7_NoData ==
    (op = "get_values" /\ processed = <<>>) => (outcome = "err" /\ ~crashed)

\* C8: decoding what collect_data encoded gives the triples it encoded, in
\* their order.
C8_RoundTrip ==
    op = "process_raw_data" =>
        /\ outcome = "ok"
        /\ processed[Len(processed)].entries = Triples(tables[cursor])

\* A record with fewer than three fields, or whose pid or tick field is no
\* integer.
Malformed(data) ==
    \E i \in 1..Len(Lines(data)) :
        LET fields == Split(Lines(data)[i], ";")
        IN  \/ Len(fields) < 3
            \/ ParseU64(fields[2]).err
            \/ ParseU64(fields[3]).err

\* C9: process_raw_data of data with a malformed record returns an error
\* value and does not end the process.
C9_DecodeError ==
    (op = "process_raw_data" /\ Malformed(buffer[cursor].data)) =>
        (outcome = "err" /\ ~crashed)

\* C10: a returned series has one sample for each offset of its name but
\* the earliest, in ascending order; a name seen at one offset has an empty
\* series and a total of 0.
C10_Series ==
    \A r \in runs :
        /\ Cardinality(NamesOf(processed)) <= 16 =>
               {e.name : e \in Returned(r)} = NamesOf(processed)
        /\ \A e \in Returned(r) :
              LET offs == RefOffsets(processed, e.name)
              IN  /\ [i \in 1..Len(e.entries) |-> e.entries[i].time] = Tail(offs)
                  /\ \A i \in 1..(Len(e.entries) - 1) :
                        e.entries[i].time < e.entries[i + 1].time
                  /\ Len(offs) = 1 =>
                        (e.entries = <<>> /\ e.total_cpu_time = 0)

C10_Witness ==
    \E r \in runs : \E e \in Returned(r) :
        /\ Len(e.entries) = 2
        /\ Len(RefOffsets(processed, e.name)) = 3

====
